---- MODULE Spec2Model ----
(***************************************************************************)
(* Verum Omnis forensic engine: evidence intake, the offline nine-brain    *)
(* report, case sealing (saveCase) and seal verification (onScanSuccess).  *)
(*                                                                         *)
(* Text is modelled as TLA+ strings.  A report is the sequence of its      *)
(* lines, a line the sequence of the pieces of the template literal that   *)
(* produced it.  SHA-512 is modelled symbolically: an injective map from   *)
(* the hashed value to a hex-digest string.  Times are milliseconds,       *)
(* coordinates are fixed-point numbers in thousandths of a degree.         *)
(***************************************************************************)
EXTENDS Integers, Sequences, FiniteSets, TLC

VARIABLES
    evidenceList,     \* App state: EvidenceArtifact[]
    report,           \* App state: report lines, <<>> is the empty string
    caseId,           \* App state: current case id
    caseQRCode,       \* App state: data URL of the displayed seal, "" if none
    savedCases,       \* App state: CaseRecord[] as last loaded from the store
    sessionLocation,  \* App state: <<>> (undefined) or <<GeoLocation>>
    isAnalyzing,      \* App state: loading overlay shown
    showScanner,      \* App state: QR scanner mounted
    lastAlert,        \* the last window.alert raised
    db,               \* IndexedDB object store "cases": set of CaseRecord, key id
    clock,            \* device clock (Date.now()), milliseconds
    nextId,           \* number of ids handed out by generateId so far
    uploads,          \* handleFileUpload invocations awaiting sha512(file)
    analysis,         \* runAnalysis invocation awaiting sha512(report), or <<>>
    refreshes,        \* refreshSavedCases invocations awaiting loadCases
    runs,             \* history: <<>> or <<the last completed analysis>>
    apiKey,           \* process.env.API_KEY is set in the build
    requests,         \* network-bound collaborator calls awaiting their answer, by kind
    returned,         \* <<>> or <<what the last collaborator call returned>>
    rejections        \* the storage calls that rejected to their caller, in order

\* What the collaborators and failing storage calls add to the state
periphery == <<apiKey, requests, returned, rejections>>

vars == <<evidenceList, report, caseId, caseQRCode, savedCases, sessionLocation,
          isAnalyzing, showScanner, lastAlert, db, clock, nextId, uploads,
          analysis, refreshes, runs, periphery>>

-----------------------------------------------------------------------------
(* Bounds of the model *)

MaxIds == 3
MaxClock == 1
MaxRefreshes == 2
MaxInFlight == 1
MaxRejections == 1

(* Program constants *)

FutureSkewMs == 5000
HashPreviewLen == 16
IdPrefixLen == 8
ConstitutionPrefixLen == 8

-----------------------------------------------------------------------------
(* Strings *)

RECURSIVE LastIndexOf(_, _, _)
LastIndexOf(s, c, i) ==
    IF i = 0 THEN 0
    ELSE IF SubSeq(s, i, i) = c THEN i
    ELSE LastIndexOf(s, c, i - 1)

UpperChars == "ABCDEFGHIJKLMNOPQRSTUVWXYZ"
LowerChars == "abcdefghijklmnopqrstuvwxyz"

LowerChar(c) ==
    IF \E i \in 1..Len(UpperChars) : SubSeq(UpperChars, i, i) = c
    THEN LET i == CHOOSE k \in 1..Len(UpperChars) : SubSeq(UpperChars, k, k) = c
         IN  SubSeq(LowerChars, i, i)
    ELSE c

RECURSIVE toLowerCase(_)
toLowerCase(s) ==
    IF Len(s) = 0 THEN ""
    ELSE LowerChar(SubSeq(s, 1, 1)) \o toLowerCase(SubSeq(s, 2, Len(s)))

startsWith(s, p) == Len(s) >= Len(p) /\ SubSeq(s, 1, Len(p)) = p

substring(s, n) == IF Len(s) <= n THEN s ELSE SubSeq(s, 1, n)

\* filename.split('.').pop(): the text after the last '.', the whole name if none
SplitPop(s) == SubSeq(s, LastIndexOf(s, ".", Len(s)) + 1, Len(s))

RECURSIVE Zeros(_)
Zeros(n) == IF n = 0 THEN "" ELSE "0" \o Zeros(n - 1)

RECURSIVE Pow10(_)
Pow10(n) == IF n = 0 THEN 1 ELSE 10 * Pow10(n - 1)

Abs(n) == IF n < 0 THEN -n ELSE n

PadLeft(s, n) == Zeros(IF Len(s) >= n THEN 0 ELSE n - Len(s)) \o s

\* A coordinate of deg degrees and milli thousandths
Coord(deg, milli) == deg * 1000 + milli

\* Number.prototype.toFixed(d) of the coordinate v (thousandths of a degree):
\* rounds half away from zero to d decimals
toFixed(v, d) ==
    LET unit   == IF Pow10(d) >= 1000 THEN 1 ELSE 1000 \div Pow10(d)
        scaled == (2 * Abs(v) + unit) \div (2 * unit)
        mult   == IF Pow10(d) >= 1000 THEN Pow10(d) \div 1000 ELSE 1
        digits == scaled * mult
        whole  == digits \div Pow10(d)
        frac   == digits % Pow10(d)
    IN  (IF v < 0 THEN "-" ELSE "")
        \o ToString(whole) \o "." \o PadLeft(ToString(frac), d)

\* Date.toLocaleString(): the local date and time to the second
getLocalTime(ts) == "t+" \o ToString(ts \div 1000) \o "s"

-----------------------------------------------------------------------------
(* Hashing and identity *)

\* crypto.subtle.digest('SHA-512', ...) rendered as hex: symbolic and injective
sha512(data) == "sha512:" \o ToString(data)

\* crypto.randomUUID(): the n-th id handed out
Uuid(n) == PadLeft(ToString(n), 8) \o "-uuid"

\* The clock readings of the model: every 6000 ms
ClockValues == {k * 6000 : k \in 0..MaxClock}

-----------------------------------------------------------------------------
(* Sequences *)

Last(s) == s[Len(s)]

IsPrefix(s, t) == Len(s) <= Len(t) /\ SubSeq(t, 1, Len(s)) = s

Range(s) == {s[i] : i \in 1..Len(s)}

-----------------------------------------------------------------------------
(* The offline forensic engine (geminiService.ts, part 1) *)

VERSION_STRING == "Verum Omnis v5.2.7"
CONSTITUTION_HASH == "45f981b0f66421f8d83d61edea66bf15c9eb5b7663690dc9296ed555def0911"

\* The value of an optional field that is absent
undefined == "<undefined>"

\* `${v}` in a template literal: an absent value reads "undefined"
TemplateText(v) == IF v = undefined THEN "undefined" ELSE v

\* Brain 1's extension -> expected MIME table
mimeMap ==
    [pdf |-> "application/pdf", jpg |-> "image/jpeg", jpeg |-> "image/jpeg",
     png |-> "image/png", txt |-> "text/plain", mp4 |-> "video/mp4",
     mp3 |-> "audio/mpeg", wav |-> "audio/wav", json |-> "application/json"]

\* mimeMap[ext], as the search string startsWith makes of it.  mimeMap is an
\* object literal: besides its own nine keys a lookup finds what it inherits
\* from Object.prototype, of which "constructor" (the function Object) and
\* "__proto__" (Object.prototype) have lowercase names; both are truthy and
\* startsWith turns them into text.  Any other key is undefined.
mimeMapGet(ext) ==
    IF ext \in DOMAIN mimeMap THEN mimeMap[ext]
    ELSE IF ext = "constructor" THEN "function Object() { [native code] }"
    ELSE IF ext = "__proto__" THEN "[object Object]"
    ELSE undefined

\* ev.filename?.split('.').pop()?.toLowerCase()
Extension(ev) ==
    IF ev.filename = undefined THEN undefined ELSE toLowerCase(SplitPop(ev.filename))

\* ext && mimeMap[ext] && !ev.mimeType.startsWith(mimeMap[ext])
IsMismatch(ev) ==
    LET ext == Extension(ev)
    IN  /\ ext # undefined
        /\ ext # ""
        /\ mimeMapGet(ext) # undefined
        /\ ~startsWith(ev.mimeType, mimeMapGet(ext))

contradictionsFound(evidence) ==
    Cardinality({i \in 1..Len(evidence) : IsMismatch(evidence[i])})

CriticalLine(ev) ==
    <<"[CRITICAL] MIME/Extension Mismatch: ", ev.filename, " (.", Extension(ev),
      ") identified as ", ev.mimeType, ". Possible Tamper.">>

RECURSIVE CriticalLines(_)
CriticalLines(evidence) ==
    IF evidence = <<>> THEN <<>>
    ELSE (IF IsMismatch(Head(evidence)) THEN <<CriticalLine(Head(evidence))>> ELSE <<>>)
         \o CriticalLines(Tail(evidence))

\* A module 1 that reads filename.split without the optional chaining
runBrain1Unguarded(evidence) ==
    IF \E i \in 1..Len(evidence) : evidence[i].filename = undefined
    THEN <<<<"TypeError: Cannot read properties of undefined (reading 'split')">>>>
    ELSE <<<<"BRAIN 1 (CONTRADICTION): ACTIVE">>>>
         \o CriticalLines(evidence)
         \o (IF contradictionsFound(evidence) = 0
             THEN <<<<"No structural contradictions detected in metadata layer.">>>>
             ELSE << <<"">>,
                     <<"WARNING: ", ToString(contradictionsFound(evidence)),
                       " contradictions detected. Integrity suspicious.">> >>)

runBrain1(evidence) ==
    <<<<"BRAIN 1 (CONTRADICTION): ACTIVE">>>>
    \o CriticalLines(evidence)
    \o (IF contradictionsFound(evidence) = 0
        THEN <<<<"No structural contradictions detected in metadata layer.">>>>
        ELSE << <<"">>,
                <<"WARNING: ", ToString(contradictionsFound(evidence)),
                  " contradictions detected. Integrity suspicious.">> >>)

\* Brain 2's block for one artifact; now is Date.now() at the run
Brain2Block(ev, now) ==
    << <<"> Artifact: ", TemplateText(ev.filename)>>,
       <<"  SIZE: ",
         IF ev.content.kind = "File" THEN ToString(ev.content.size) ELSE "N/A",
         " bytes">>,
       <<"  HASH: ", substring(ev.cryptographicHash, HashPreviewLen), "...">>,
       <<"  TYPE: ", ev.mimeType>> >>
    \o (IF ev.timestamp > now + FutureSkewMs
        THEN <<<<"  [FLAG] Timestamp is in the future.">>>>
        ELSE <<>>)
    \o << <<"  INTEGRITY: PRESERVED">>, <<"">> >>

RECURSIVE Brain2Blocks(_, _)
Brain2Blocks(evidence, now) ==
    IF evidence = <<>> THEN <<>>
    ELSE Brain2Block(Head(evidence), now) \o Brain2Blocks(Tail(evidence), now)

runBrain2(evidence, now) ==
    <<<<"BRAIN 2 (FORENSICS): ACTIVE">>>> \o Brain2Blocks(evidence, now)

runBrain3(evidence) ==
    << <<"BRAIN 3 (COMMS INTEGRITY): ACTIVE">>,
       IF Len(evidence) > 1
       THEN <<"Continuity Check: Multiple artifacts present. Sequence validated by timestamp sort.">>
       ELSE <<"Continuity Check: Single artifact. Cannot verify conversation flow.">> >>

runBrain4 ==
    << <<"BRAIN 4 (LINGUISTICS): OFFLINE">>,
       <<"- Status: Insufficient local NLP compute for behavioral profiling.">>,
       <<"- Action: Upload to Legal Assistant for pattern matching.">> >>

\* [...evidence].sort((a,b) => a.timestamp - b.timestamp): stable insertion
RECURSIVE InsertByTimestamp(_, _)
InsertByTimestamp(sorted, ev) ==
    IF sorted = <<>> THEN <<ev>>
    ELSE IF Last(sorted).timestamp <= ev.timestamp THEN Append(sorted, ev)
    ELSE Append(InsertByTimestamp(SubSeq(sorted, 1, Len(sorted) - 1), ev), Last(sorted))

RECURSIVE SortByTimestamp(_)
SortByTimestamp(evidence) ==
    IF evidence = <<>> THEN <<>>
    ELSE InsertByTimestamp(SortByTimestamp(SubSeq(evidence, 1, Len(evidence) - 1)),
                           Last(evidence))

HasLocation(e) == e.sessionLocation # <<>>

\* A location list taken from the timestamp-sorted copy
geoLocationsOfSorted(evidence) ==
    LET located == SelectSeq(SortByTimestamp(evidence), HasLocation)
    IN  [i \in 1..Len(located) |-> located[i].sessionLocation[1]]

\* evidence.filter(e => e.sessionLocation).map(e => e.sessionLocation)
geoLocations(evidence) ==
    LET located == SelectSeq(evidence, HasLocation)
    IN  [i \in 1..Len(located) |-> located[i].sessionLocation[1]]

\* A module 5 without the placeholder for an empty list
runBrain5NoPlaceholder(evidence) ==
    LET sorted == SortByTimestamp(evidence)
    IN  <<<<"BRAIN 5 (TIMELINE & GEO): ACTIVE">>>>
        \o (IF Len(sorted) = 0 THEN <<>>
            ELSE <<<<"Timeline Span: ", getLocalTime(sorted[1].timestamp), " to ",
                     getLocalTime(Last(sorted).timestamp)>>>>)

runBrain5(evidence) ==
    LET sorted == SortByTimestamp(evidence)
    IN  <<<<"BRAIN 5 (TIMELINE & GEO): ACTIVE">>>>
        \o (IF Len(sorted) = 0 THEN <<<<"No data.">>>>
            ELSE << <<"Timeline Span: ", getLocalTime(sorted[1].timestamp), " to ",
                      getLocalTime(Last(sorted).timestamp)>>,
                    IF Len(geoLocations(evidence)) > 0
                    THEN LET loc == geoLocations(evidence)[1]
                         IN  <<"Session Jurisdiction: Lat ", toFixed(loc.lat, 4),
                               ", Lng ", toFixed(loc.lng, 4),
                               " (Accuracy: ", ToString(loc.accuracy), "m)">>
                    ELSE <<"Session Jurisdiction: UNKNOWN (GPS Data Missing)">> >>)

runBrain6 ==
    << <<"BRAIN 6 (FINANCIAL): OFFLINE">>,
       <<"- Status: No Excel/CSV parser loaded in immutable core.">> >>

\* A lookup that scans the timestamp-sorted copy
FirstLocationOfSorted(evidence) ==
    LET sorted == SortByTimestamp(evidence)
    IN  IF \E i \in 1..Len(sorted) : HasLocation(sorted[i])
        THEN sorted[CHOOSE i \in 1..Len(sorted) :
                      /\ HasLocation(sorted[i])
                      /\ \A j \in 1..(i - 1) : ~HasLocation(sorted[j])].sessionLocation
        ELSE <<>>

\* evidence.find(e => e.sessionLocation)?.sessionLocation, <<>> if none
\* A lookup that consults the first artifact only
FirstLocationOfHead(evidence) ==
    IF evidence # <<>> THEN Head(evidence).sessionLocation ELSE <<>>

FirstLocation(evidence) ==
    IF \E i \in 1..Len(evidence) : HasLocation(evidence[i])
    THEN evidence[CHOOSE i \in 1..Len(evidence) :
                    /\ HasLocation(evidence[i])
                    /\ \A j \in 1..(i - 1) : ~HasLocation(evidence[j])].sessionLocation
    ELSE <<>>

runBrain7(evidence) ==
    LET found == FirstLocation(evidence)
    IN  <<<<"BRAIN 7 (LEGAL MAPPING): ACTIVE">>>>
        \o (IF found # <<>>
            THEN LET loc == found[1]
                 IN  IF /\ loc.lat > Coord(22, 0) /\ loc.lat < Coord(26, 0)
                        /\ loc.lng > Coord(51, 0) /\ loc.lng < Coord(57, 0)
                     THEN << <<"Detected Jurisdiction: UNITED ARAB EMIRATES (Based on Coords)">>,
                             <<"Relevant Laws: Federal Law 32/2021 (Cybercrime), Article 84.">> >>
                     ELSE IF /\ loc.lat > Coord(-35, 0) /\ loc.lat < Coord(-22, 0)
                             /\ loc.lng > Coord(16, 0) /\ loc.lng < Coord(33, 0)
                     THEN << <<"Detected Jurisdiction: SOUTH AFRICA (Based on Coords)">>,
                             <<"Relevant Laws: ECT Act 25 of 2002.">> >>
                     ELSE <<<<"Detected Jurisdiction: INTERNATIONAL / UNKNOWN (Lat: ",
                              toFixed(loc.lat, 2), ")">>>>
            ELSE <<<<"Jurisdiction: UNDETERMINED (No GPS)">>>>)

IsAV(e) == e.type = "AUDIO" \/ e.type = "VIDEO"

runBrain8(evidence) ==
    << <<"BRAIN 8 (AUDIO/VOICE): OFFLINE">>,
       <<"- ", ToString(Len(SelectSeq(evidence, IsAV))), " AV artifacts detected.">>,
       <<"- Deepfake analysis requires Cloud Uplink.">> >>

runBrain9 ==
    << <<"BRAIN 9 (R&D): NON-VOTING ADVISORY">>,
       <<"- Hypothesis: Cross-reference metadata with external weather logs.">>,
       <<"- Recommendation: Verify SHA-512 hashes manually via independent terminal.">> >>

ManifestLine(ev) ==
    <<"[ID:", substring(ev.id, IdPrefixLen), "] ", TemplateText(ev.filename), " (", ev.type,
      ") | SHA: ", ev.cryptographicHash>>

BlankLine == <<<<"">>>>

\* Sections assembled as the modules finish: the constant ones first
BrainSectionsAsCompleted(evidence, now) ==
    runBrain4 \o BlankLine
    \o runBrain6 \o BlankLine
    \o runBrain9 \o BlankLine
    \o runBrain1(evidence) \o BlankLine
    \o runBrain2(evidence, now) \o BlankLine
    \o runBrain3(evidence) \o BlankLine
    \o runBrain5(evidence) \o BlankLine
    \o runBrain7(evidence) \o BlankLine
    \o runBrain8(evidence) \o BlankLine

\* Section 2 of the report: report += runBrainN(...) + "\n", N = 1..9 in turn
BrainSections(evidence, now) ==
    runBrain1(evidence) \o BlankLine
    \o runBrain2(evidence, now) \o BlankLine
    \o runBrain3(evidence) \o BlankLine
    \o runBrain4 \o BlankLine
    \o runBrain5(evidence) \o BlankLine
    \o runBrain6 \o BlankLine
    \o runBrain7(evidence) \o BlankLine
    \o runBrain8(evidence) \o BlankLine
    \o runBrain9 \o BlankLine

\* The report up to and including "SEALED ORIGINAL - VERUM OMNIS"
ReportBody(evidence, id, now) ==
    << <<VERSION_STRING, " - Constitutional Deployment Validator">>,
       <<"CASE ID: ", id>>,
       <<"DATE: ", getLocalTime(now), " (Local Device Time)">>,
       <<"MODE: OFFLINE STRICT (NO API)">>,
       <<"------------------------------------------------------------">>,
       <<"">>,
       <<"CONSTITUTIONAL COMPLIANCE TESTS:">>,
       <<"----------------------------------------">>,
       <<"Test 1: Constitution Hash Verification... PASS [",
         substring(CONSTITUTION_HASH, ConstitutionPrefixLen), "...]">>,
       <<"Test 2: Guardianship Treaty... PASS">>,
       <<"Test 3: Zero-Trust Architecture... PASS">>,
       <<"Test 4: Offline Enforcement... PASS">>,
       <<"">>,
       <<"1. EVIDENCE MANIFEST & ANCHORING">>,
       <<"--------------------------------">> >>
    \o [i \in 1..Len(evidence) |-> ManifestLine(evidence[i])]
    \o << <<"">>,
          <<"2. 9-BRAIN ARCHITECTURE OUTPUTS">>,
          <<"-------------------------------">> >>
    \o BrainSections(evidence, now) \o BlankLine
    \o << <<"3. TRIPLE VERIFICATION DOCTRINE">>,
          <<"-------------------------------">>,
          <<"A) THESIS: Evidence suggests a collection of digital artifacts has been preserved.">>,
          <<"B) ANTITHESIS: Artifacts could be fabricated if source device was compromised before hashing.">>,
          <<"C) SYNTHESIS: Chain of custody valid from ingestion point. Content veracity: VERIFIED_DIGITALLY_ONLY.">>,
          <<"">>,
          <<"TV_THESIS: PASS">>,
          <<"TV_ANTITHESIS: PASS (Risks Acknowledged)">>,
          <<"TV_SYNTHESIS: PASS">>,
          <<"OVERALL: PASS">>,
          <<"">>,
          <<"4. DISHONESTY DETECTION MATRIX">>,
          <<"------------------------------">>,
          <<"Contradictions: ", "0", " detected in metadata.">>,
          <<"Omissions: Cannot determine without external reference.">>,
          <<"Tampering: None detected by Brain 2.">>,
          <<"">>,
          <<"SEALED ORIGINAL - VERUM OMNIS">> >>

\* A self-hash taken after the label of the terminal line is appended
runAnalysisHashingLabel(evidence, id, now) ==
    LET body == ReportBody(evidence, id, now)
    IN  Append(body, <<"SHA-512:", sha512(Append(body, <<"SHA-512:">>))>>)

\* runConstitutionalAnalysis(evidence, caseId) run when Date.now() = now
runConstitutionalAnalysis(evidence, id, now) ==
    LET body == ReportBody(evidence, id, now)
    IN  Append(body, <<"SHA-512:", sha512(body)>>)

-----------------------------------------------------------------------------
(* Inputs of the model *)

\* The files the user can select: name, declared type, bytes
Files ==
    { [kind |-> "File", name |-> "x.pdf", type |-> "application/pdf", bytes |-> "%PDF", size |-> 4],
      [kind |-> "File", name |-> "scan.PDF", type |-> "image/png", bytes |-> "PNG", size |-> 3] }

\* The positions the geolocation sensor can resolve
Locations ==
    { [lat |-> Coord(24, 0), lng |-> Coord(54, 0), accuracy |-> 10] }

-----------------------------------------------------------------------------
(* Evidence intake (App.tsx) *)

\* A digest taken over the file's name instead of its bytes
HashFileName(file) == sha512(file.name)

\* sha512(file): the digest of file.arrayBuffer()
HashFile(file) == sha512(file.bytes)

EvidenceTypeOf(file) ==
    IF startsWith(file.type, "audio/") THEN "AUDIO"
    ELSE IF startsWith(file.type, "video/") THEN "VIDEO"
    ELSE IF startsWith(file.type, "image/") THEN "PHOTO"
    ELSE "DOCUMENT"

\* URL.createObjectURL: a handle no live artifact of the pool holds
createObjectURL(pool) ==
    "blob:" \o ToString(CHOOSE k \in 1..(Len(pool) + 1) :
                          /\ \A i \in 1..Len(pool) : pool[i].previewUrl # "blob:" \o ToString(k)
                          /\ \A j \in 1..(k - 1) :
                                \E i \in 1..Len(pool) : pool[i].previewUrl = "blob:" \o ToString(j))

\* The first custody entry of an artifact
CapturedEntry(hash, location, now) ==
    [timestamp |-> now, action |-> "CAPTURED", actor |-> "USER", hash |-> hash,
     location |-> location]

\* The EvidenceArtifact handleFileUpload builds for one hashed file
NewEvidence(file, id, location, now, pool) ==
    [id |-> id,
     type |-> EvidenceTypeOf(file),
     content |-> file,
     filename |-> file.name,
     mimeType |-> file.type,
     timestamp |-> now,
     sessionLocation |-> location,
     chainOfCustody |-> <<CapturedEntry(HashFile(file), location, now)>>,
     cryptographicHash |-> HashFile(file),
     previewUrl |-> createObjectURL(pool)]

-----------------------------------------------------------------------------
(* Case sealing and the store (storage.ts) *)

RECURSIVE JoinHashes(_)
\* evidence.map(e => e.cryptographicHash).join("")
JoinHashes(evidence) ==
    IF evidence = <<>> THEN ""
    ELSE Head(evidence).cryptographicHash \o JoinHashes(Tail(evidence))

\* A seal that leaves the report out
CaseHashEvidenceOnly(rep, evidence) == sha512(JoinHashes(evidence))

\* A seal over the set of evidence hashes, blind to their order
CaseHashUnordered(rep, evidence) ==
    sha512(ToString({evidence[i].cryptographicHash : i \in 1..Len(evidence)}) \o sha512(rep))

\* The "Super Hash" saveCase computes
CaseHash(rep, evidence) == sha512(JoinHashes(evidence) \o sha512(rep))

\* The CaseRecord saveCase builds; now is Date.now() when the record is built
CaseRecord(id, name, rep, evidence, now) ==
    [id |-> id,
     name |-> IF name # "" THEN name ELSE "Case " \o substring(id, 8),
     timestamp |-> now,
     report |-> rep,
     evidence |-> evidence,
     caseHash |-> CaseHash(rep, evidence)]

\* store.put(record): insert, or replace the record of the same key
Put(store, record) == {r \in store : r.id # record.id} \cup {record}

\* The number of the id, which orders the keys of the store
IdIndex(id) == CHOOSE n \in 0..(MaxIds + 1) : Uuid(n) = id

RECURSIVE SortCases(_, _)
\* store.getAll() then cases.sort((a,b) => b.timestamp - a.timestamp): newest
\* first, records of equal timestamp in key order
CaseBefore(a, b) ==
    \/ a.timestamp > b.timestamp
    \/ a.timestamp = b.timestamp /\ IdIndex(a.id) < IdIndex(b.id)

SortCases(store, acc) ==
    IF store = {} THEN acc
    ELSE LET first == CHOOSE r \in store : \A o \in store \ {r} : CaseBefore(r, o)
         IN  SortCases(store \ {first}, Append(acc, first))

loadCasesSorted(store) == SortCases(store, <<>>)

\* QRCode.toDataURL(text): the image that encodes text
generateQRCode(text) == "data:image/png;qr," \o text

-----------------------------------------------------------------------------
(* The application (App.tsx) *)

\* The loading overlay and the scanner cover the controls
UiFree == ~isAnalyzing /\ ~showScanner

\* Files selected and still being hashed
RECURSIVE PendingFiles(_)
PendingFiles(tasks) ==
    IF tasks = <<>> THEN 0 ELSE Len(Head(tasks).files) + PendingFiles(Tail(tasks))

\* The state after App is constructed, whatever the build's API key
InitApp ==
    /\ evidenceList = <<>>
    /\ report = <<>>
    /\ caseId = Uuid(1)
    /\ caseQRCode = ""
    /\ savedCases = <<>>
    /\ sessionLocation = <<>>
    /\ isAnalyzing = FALSE
    /\ showScanner = FALSE
    /\ lastAlert = "none"
    /\ db = {}
    /\ clock = 0
    /\ nextId = 1
    /\ uploads = <<>>
    /\ analysis = <<>>
    /\ refreshes = 1
    /\ runs = <<>>
    /\ requests = [kind \in {"podcast", "speech", "video", "message"} |-> 0]
    /\ returned = <<>>
    /\ rejections = <<>>

\* A build that carries an API key
Init == InitApp /\ apiKey = TRUE

\* The device clock reads another time (it runs, or it is set)
Tick ==
    /\ \E t \in ClockValues : t # clock /\ clock' = t
    /\ UNCHANGED <<evidenceList, report, caseId, caseQRCode, savedCases, sessionLocation,
                   isAnalyzing, showScanner, lastAlert, db, nextId, uploads, analysis,
                   refreshes, runs>>
    /\ UNCHANGED periphery

\* navigator.geolocation.getCurrentPosition success callback
GeoSuccess ==
    /\ sessionLocation = <<>>
    /\ \E loc \in Locations : sessionLocation' = <<loc>>
    /\ UNCHANGED <<evidenceList, report, caseId, caseQRCode, savedCases, isAnalyzing,
                   showScanner, lastAlert, db, clock, nextId, uploads, analysis,
                   refreshes, runs>>
    /\ UNCHANGED periphery

\* handleFileUpload is invoked with one or two selected files; it captures the
\* session location of the render and awaits sha512 of the first file.  The
\* invocation is recorded with the case id of that render, which the handler
\* does not read
handleFileUpload ==
    /\ UiFree
    /\ \E f1 \in Files, more \in {<<>>} \cup {<<f>> : f \in Files} :
          /\ nextId + PendingFiles(uploads) + 1 + Len(more) <= MaxIds
          /\ uploads' = Append(uploads, [files |-> <<f1>> \o more,
                                         sessionLocation |-> sessionLocation,
                                         caseId |-> caseId])
    /\ UNCHANGED <<evidenceList, report, caseId, caseQRCode, savedCases, sessionLocation,
                   isAnalyzing, showScanner, lastAlert, db, clock, nextId, analysis,
                   refreshes, runs>>
    /\ UNCHANGED periphery

\* A setter that builds on no pending state: the list becomes the new artifact
SetEvidenceAlone(prev, newEvidence) == <<newEvidence>>

\* setEvidenceList(prev => [...prev, newEvidence])
AppendEvidence(prev, newEvidence) == Append(prev, newEvidence)

\* sha512(file) resolves in invocation i of handleFileUpload: the artifact is
\* built and appended, and the loop awaits the hash of the next file
UploadHashed ==
    /\ nextId < MaxIds
    /\ \E i \in 1..Len(uploads) :
          LET task == uploads[i]
              ev   == NewEvidence(Head(task.files), Uuid(nextId + 1),
                                  task.sessionLocation, clock, evidenceList)
          IN  /\ evidenceList' = AppendEvidence(evidenceList, ev)
              /\ uploads' = IF Len(task.files) = 1
                            THEN SubSeq(uploads, 1, i - 1) \o SubSeq(uploads, i + 1, Len(uploads))
                            ELSE [uploads EXCEPT ![i].files = Tail(task.files)]
    /\ nextId' = nextId + 1
    /\ UNCHANGED <<report, caseId, caseQRCode, savedCases, sessionLocation, isAnalyzing,
                   showScanner, lastAlert, db, clock, analysis, refreshes, runs>>
    /\ UNCHANGED periphery

\* runAnalysis: the report body is composed at once from the evidence, case id
\* and clock of the click; the call then awaits the digest of the body
runAnalysis ==
    /\ UiFree
    /\ Len(evidenceList) > 0
    /\ analysis = <<>>
    /\ isAnalyzing' = TRUE
    /\ analysis' = <<[evidence |-> evidenceList, caseId |-> caseId,
                       result |-> runConstitutionalAnalysis(evidenceList, caseId, clock)]>>
    /\ UNCHANGED <<evidenceList, report, caseId, caseQRCode, savedCases, sessionLocation,
                   showScanner, lastAlert, db, clock, nextId, uploads, refreshes,
                   runs>>
    /\ UNCHANGED periphery

\* runConstitutionalAnalysis resolves: setReport(result)
AnalysisResolved ==
    /\ analysis # <<>>
    /\ report' = analysis[1].result
    /\ isAnalyzing' = FALSE
    /\ analysis' = <<>>
    /\ UNCHANGED <<evidenceList, caseId, caseQRCode, savedCases, sessionLocation,
                   showScanner, lastAlert, db, clock, nextId, uploads, refreshes>>
    /\ UNCHANGED periphery

AnalysisDone == AnalysisResolved /\ UNCHANGED runs

\* refreshSavedCases is called: one more loadCases in flight.  A load sets the
\* list to the store's content when it resolves, so the loads in flight beyond
\* MaxRefreshes add no behaviour and are not counted
StartRefresh(n) == IF n < MaxRefreshes THEN n + 1 ELSE n

\* saveCase(caseId, name, report, evidence): the record is built and put
saveCase(store, id, name, rep, evidence, now) ==
    Put(store, CaseRecord(id, name, rep, evidence, now))

\* handleSaveCase (the button shows when there is a report): saveCase with the
\* case id, report and evidence of the render, then the seal is displayed, the
\* saved-case list is refreshed and the user is told.  saveCase reads nothing but
\* its arguments, so the handler is taken as one step
handleSaveCase ==
    /\ UiFree
    /\ report # <<>>
    /\ db' = saveCase(db, caseId, "Case " \o getLocalTime(clock), report, evidenceList, clock)
    /\ caseQRCode' = generateQRCode(CaseHash(report, evidenceList))
    /\ refreshes' = StartRefresh(refreshes)
    /\ lastAlert' = "sealed"
    /\ UNCHANGED <<evidenceList, report, caseId, savedCases, sessionLocation, isAnalyzing,
                   showScanner, clock, nextId, uploads, analysis, runs>>
    /\ UNCHANGED periphery

\* A refresh that resolves without setting the list
RefreshDoneKeepsList ==
    /\ refreshes > 0
    /\ refreshes' = refreshes - 1
    /\ UNCHANGED <<evidenceList, report, caseId, caseQRCode, savedCases, sessionLocation,
                   isAnalyzing, showScanner, lastAlert, db, clock, nextId, uploads,
                   analysis, runs>>
    /\ UNCHANGED periphery

\* loadCases resolves in refreshSavedCases: setSavedCases(cases.sort(...))
RefreshDone ==
    /\ refreshes > 0
    /\ savedCases' = loadCasesSorted(db)
    /\ refreshes' = refreshes - 1
    /\ UNCHANGED <<evidenceList, report, caseId, caseQRCode, sessionLocation, isAnalyzing,
                   showScanner, lastAlert, db, clock, nextId, uploads, analysis,
                   runs>>
    /\ UNCHANGED periphery

\* record.evidence.map(e => ({...e, previewUrl: URL.createObjectURL(e.content)}))
RECURSIVE HydrateFrom(_, _)
HydrateFrom(evidence, acc) ==
    IF evidence = <<>> THEN acc
    ELSE HydrateFrom(Tail(evidence),
                     Append(acc, [Head(evidence) EXCEPT !.previewUrl = createObjectURL(acc)]))

\* A hydration that starts every custody chain afresh
HydrateFreshCustody(evidence) ==
    [i \in 1..Len(evidence) |->
        [HydrateFrom(evidence, <<>>)[i] EXCEPT !.chainOfCustody = <<>>]]

\* The evidence list handleLoadCase sets: the record's, with fresh preview handles
Hydrate(evidence) == HydrateFrom(evidence, <<>>)

\* What handleLoadCase(record) assigns
LoadCase(record) ==
    /\ evidenceList' = Hydrate(record.evidence)
    /\ report' = record.report
    /\ caseId' = record.id
    /\ caseQRCode' = generateQRCode(record.caseHash)

\* A saved case is clicked in the list
handleLoadCase ==
    /\ UiFree
    /\ \E i \in 1..Len(savedCases) : LoadCase(savedCases[i])
    /\ UNCHANGED <<savedCases, sessionLocation, isAnalyzing, showScanner, lastAlert, db,
                   clock, nextId, uploads, analysis, refreshes, runs>>
    /\ UNCHANGED periphery

\* handleClearStorage, confirmed: clearAllCases, then refreshSavedCases
handleClearStorage ==
    /\ UiFree
    /\ db # {}
    /\ db' = {}
    /\ refreshes' = StartRefresh(refreshes)
    /\ UNCHANGED <<evidenceList, report, caseId, caseQRCode, savedCases, sessionLocation,
                   isAnalyzing, showScanner, lastAlert, clock, nextId, uploads, analysis,
                   runs>>
    /\ UNCHANGED periphery

\* handleEmptyEvidence: a new, empty case
handleEmptyEvidence ==
    /\ UiFree
    /\ nextId < MaxIds
    /\ evidenceList' = <<>>
    /\ report' = <<>>
    /\ caseId' = Uuid(nextId + 1)
    /\ nextId' = nextId + 1
    /\ caseQRCode' = ""
    /\ UNCHANGED <<savedCases, sessionLocation, isAnalyzing, showScanner, lastAlert, db,
                   clock, uploads, analysis, refreshes, runs>>
    /\ UNCHANGED periphery

\* The scan button mounts the QR scanner
OpenScanner ==
    /\ UiFree
    /\ showScanner' = TRUE
    /\ UNCHANGED <<evidenceList, report, caseId, caseQRCode, savedCases, sessionLocation,
                   isAnalyzing, lastAlert, db, clock, nextId, uploads, analysis,
                   refreshes, runs>>
    /\ UNCHANGED periphery

\* The scanner's close button
CloseScanner ==
    /\ showScanner
    /\ showScanner' = FALSE
    /\ UNCHANGED <<evidenceList, report, caseId, caseQRCode, savedCases, sessionLocation,
                   isAnalyzing, lastAlert, db, clock, nextId, uploads, analysis,
                   refreshes, runs>>
    /\ UNCHANGED periphery

\* A comparison that accepts a leading part of the seal
SealMatchesPrefix(c, data) == startsWith(c.caseHash, data)

\* c.caseHash === data
SealMatches(c, data) == c.caseHash = data

\* savedCases.find(c => c.caseHash === data): <<>> or <<the first match>>
FindCase(cases, data) ==
    IF \E i \in 1..Len(cases) : SealMatches(cases[i], data)
    THEN <<cases[CHOOSE i \in 1..Len(cases) :
                    /\ SealMatches(cases[i], data)
                    /\ \A j \in 1..(i - 1) : ~SealMatches(cases[j], data)]>>
    ELSE <<>>

\* What a camera can be shown: the seal of a case in the store or in the
\* saved-case list, such a seal cut short by a character, or an unrelated code
ScanCandidates ==
    LET seals == {r.caseHash : r \in db} \cup {savedCases[i].caseHash : i \in 1..Len(savedCases)}
    IN  seals \cup {SubSeq(x, 1, Len(x) - 1) : x \in seals} \cup {"unknown-seal"}

\* A rejection that also drops the current evidence and report
ScanRejectedClears ==
    /\ lastAlert' = "tamper"
    /\ evidenceList' = <<>>
    /\ report' = <<>>
    /\ UNCHANGED <<caseId, caseQRCode>>

\* What onScanSuccess does on a non-match
ScanRejected ==
    /\ lastAlert' = "tamper"
    /\ UNCHANGED <<evidenceList, report, caseId, caseQRCode>>

\* onScanSuccess(data): the scanner decoded data
onScanSuccess(data) ==
    /\ showScanner
    /\ showScanner' = FALSE
    /\ LET match == FindCase(savedCases, data)
       IN  IF match # <<>>
           THEN /\ lastAlert' = "verified"
                /\ LoadCase(match[1])
           ELSE ScanRejected
    /\ UNCHANGED <<savedCases, sessionLocation, isAnalyzing, db, clock, nextId, uploads,
                   analysis, refreshes, runs>>
    /\ UNCHANGED periphery

Scan == \E data \in ScanCandidates : onScanSuccess(data)

Next ==
    \/ handleFileUpload
    \/ UploadHashed
    \/ runAnalysis
    \/ AnalysisDone
    \/ handleSaveCase
    \/ RefreshDone
    \/ handleLoadCase
    \/ handleClearStorage
    \/ handleEmptyEvidence
    \/ OpenScanner
    \/ CloseScanner
    \/ Scan

Spec == Init /\ [][Next]_vars

\* The application when no persistence operation fails: a loadCases awaited
\* by refreshSavedCases resolves in the end
SpecVerify == Init /\ [][Next]_vars /\ WF_vars(RefreshDone)

-----------------------------------------------------------------------------
(* Intake and analysis under a running clock and the position sensor, with  *)
(* the completed analyses recorded                                          *)

\* runConstitutionalAnalysis resolves, and the run is recorded
AnalysisRecorded ==
    /\ AnalysisResolved
    /\ runs' = <<[evidence |-> analysis[1].evidence, caseId |-> analysis[1].caseId,
                  report |-> analysis[1].result]>>

NextIntake ==
    \/ Tick
    \/ GeoSuccess
    \/ handleFileUpload
    \/ UploadHashed
    \/ runAnalysis
    \/ AnalysisRecorded

SpecIntake == Init /\ [][NextIntake]_vars

-----------------------------------------------------------------------------
(* Intake, analysis and the clearing of the pool                            *)

NextClear ==
    \/ GeoSuccess
    \/ handleFileUpload
    \/ UploadHashed
    \/ runAnalysis
    \/ AnalysisDone
    \/ handleEmptyEvidence

SpecClear == Init /\ [][NextClear]_vars

-----------------------------------------------------------------------------
(* The network-bound collaborators (geminiService.ts, part 2) and the       *)
(* handlers that call them (App.tsx)                                        *)

\* The value null
Null == "null"

\* What sendMessage returns without a chat session, and when the call throws
NoSessionText == "API Key missing or Assistant not initialized. (Online Mode Required)"
ContactErrorText == "Error contacting Legal Assistant Network. Check internet or API quota."

\* What a collaborator call returns when the network call throws or yields
\* nothing: the catch blocks return null, sendMessage returns its error text
FailureValue(kind) == IF kind = "message" THEN ContactErrorText ELSE Null

\* A call without API key that answers as a failed network call does
NoKeyValueAsFailure(kind) == FailureValue(kind)

\* What a collaborator call returns without process.env.API_KEY
NoKeyValue(kind) == IF kind = "message" THEN NoSessionText ELSE Null

\* What a collaborator call returns when the network answers
SuccessValue(kind) ==
    IF kind = "message" THEN "result.text"
    ELSE IF kind = "video" THEN "uri&key=API_KEY"
    ELSE "bytes.buffer"

\* The collaborator calls: generatePodcast, generateSpeech, generateReenactment,
\* LegalAssistant.sendMessage
Kinds == {"podcast", "speech", "video", "message"}

\* The calls of one kind awaiting their answer
InFlight(kind) == requests[kind]

\* What no collaborator handler assigns
besideCollaborators ==
    <<evidenceList, report, caseId, caseQRCode, savedCases, sessionLocation, showScanner,
      db, clock, nextId, uploads, analysis, refreshes, runs, apiKey, rejections>>

\* A handler calls a collaborator: without API key the call returns at once,
\* with one it goes to the network; blocking says whether the handler shows
\* the loading overlay while it waits, alert is what it tells the user when
\* the call returns nothing
CallCollaborator(kind, blocking, alert) ==
    IF apiKey
    THEN /\ requests' = [requests EXCEPT ![kind] = @ + 1]
         /\ isAnalyzing' = (isAnalyzing \/ blocking)
         /\ UNCHANGED <<returned, lastAlert>>
    ELSE /\ returned' = <<[kind |-> kind, value |-> NoKeyValue(kind)]>>
         /\ lastAlert' = (IF alert # "" THEN alert ELSE lastAlert)
         /\ UNCHANGED <<requests, isAnalyzing>>

\* handlePodcast: generatePodcast(report) under the loading overlay
handlePodcast ==
    /\ UiFree
    /\ report # <<>>
    /\ CallCollaborator("podcast", TRUE, "podcast failed")
    /\ UNCHANGED besideCollaborators

\* handleTTS: generateSpeech(report.substring(0, 500)), no overlay
handleTTS ==
    /\ UiFree
    /\ report # <<>>
    /\ InFlight("speech") < MaxInFlight
    /\ CallCollaborator("speech", FALSE, "")
    /\ UNCHANGED besideCollaborators

\* handleReenactment with a prompt typed: generateReenactment(prompt) under
\* the loading overlay; the button does not ask for a report
handleReenactment ==
    /\ UiFree
    /\ CallCollaborator("video", TRUE, "video failed")
    /\ UNCHANGED besideCollaborators

\* handleSendMessage with a message typed: legalAssistant.sendMessage; the
\* input is enabled, and legalAssistant set by the effect, once there is a report
handleSendMessage ==
    /\ UiFree
    /\ report # <<>>
    /\ InFlight("message") < MaxInFlight
    /\ CallCollaborator("message", FALSE, "")
    /\ UNCHANGED besideCollaborators

\* The handlers that show the loading overlay while they wait
Blocking(kind) == kind = "podcast" \/ kind = "video"

\* The network answers a call: the handler uses the result
ExternalSucceeded(kind) ==
    /\ requests[kind] > 0
    /\ requests' = [requests EXCEPT ![kind] = @ - 1]
    /\ returned' = <<[kind |-> kind, value |-> SuccessValue(kind)]>>
    /\ isAnalyzing' = (isAnalyzing /\ ~Blocking(kind))
    /\ UNCHANGED lastAlert
    /\ UNCHANGED besideCollaborators

\* A failure path that also drops the report the call was made for
ExternalFailedDropsReport(kind) ==
    /\ requests[kind] > 0
    /\ requests' = [requests EXCEPT ![kind] = @ - 1]
    /\ returned' = <<[kind |-> kind, value |-> FailureValue(kind)]>>
    /\ isAnalyzing' = (isAnalyzing /\ ~Blocking(kind))
    /\ report' = <<>>
    /\ UNCHANGED <<evidenceList, caseId, caseQRCode, savedCases, sessionLocation,
                   showScanner, lastAlert, db, clock, nextId, uploads, analysis,
                   refreshes, runs, apiKey, rejections>>

\* The network call throws or yields nothing: the collaborator returns its
\* failure value and the handler tells the user, if it tells anything
ExternalFailed(kind) ==
    /\ requests[kind] > 0
    /\ requests' = [requests EXCEPT ![kind] = @ - 1]
    /\ returned' = <<[kind |-> kind, value |-> FailureValue(kind)]>>
    /\ isAnalyzing' = (isAnalyzing /\ ~Blocking(kind))
    /\ lastAlert' = (IF kind = "podcast" THEN "podcast failed"
                     ELSE IF kind = "video" THEN "video failed"
                     ELSE lastAlert)
    /\ UNCHANGED besideCollaborators

ExternalSettled ==
    \E kind \in Kinds : ExternalSucceeded(kind) \/ ExternalFailed(kind)

\* A build with or without an API key
InitExternal == InitApp /\ apiKey \in BOOLEAN

NextExternal ==
    \/ handleFileUpload
    \/ UploadHashed
    \/ runAnalysis
    \/ AnalysisDone
    \/ handleSaveCase
    \/ handlePodcast
    \/ handleTTS
    \/ handleReenactment
    \/ handleSendMessage
    \/ ExternalSettled

SpecExternal == InitExternal /\ [][NextExternal]_vars

-----------------------------------------------------------------------------
(* Storage calls that fail (storage.ts): the request's onerror, or initDB's, *)
(* rejects the promise the caller awaits                                    *)

\* What a rejected storage call leaves alone in App: everything but the count
\* of loads in flight
besideRejection ==
    <<evidenceList, report, caseId, caseQRCode, savedCases, sessionLocation, isAnalyzing,
      showScanner, lastAlert, db, clock, nextId, uploads, analysis, runs, apiKey,
      requests, returned>>

\* The storage call op rejects to its caller
Rejected(op) ==
    /\ Len(rejections) < MaxRejections
    /\ rejections' = Append(rejections, op)
    /\ UNCHANGED besideRejection

\* handleSaveCase when saveCase rejects: the await throws, the rest of the
\* handler (seal display, refresh, confirmation) does not run
SaveRejected ==
    /\ UiFree
    /\ report # <<>>
    /\ Rejected("saveCase")
    /\ UNCHANGED refreshes

\* A load that rejects and leaves the list empty behind it
RefreshRejectedEmptiesList ==
    /\ refreshes > 0
    /\ refreshes' = refreshes - 1
    /\ Len(rejections) < MaxRejections
    /\ rejections' = Append(rejections, "loadCases")
    /\ savedCases' = <<>>
    /\ UNCHANGED <<evidenceList, report, caseId, caseQRCode, sessionLocation, isAnalyzing,
                   showScanner, lastAlert, db, clock, nextId, uploads, analysis, runs,
                   apiKey, requests, returned>>

\* refreshSavedCases when loadCases rejects: setSavedCases is not reached
RefreshRejected ==
    /\ refreshes > 0
    /\ refreshes' = refreshes - 1
    /\ Rejected("loadCases")

\* handleClearStorage, confirmed, when clearAllCases rejects: no refresh
ClearRejected ==
    /\ UiFree
    /\ Rejected("clearAllCases")
    /\ UNCHANGED refreshes

\* store.delete(id)
deleteCase(store, id) == {r \in store : r.id # id}

\* deleteCase(id) is called for a stored case and resolves (App never calls
\* it: the call is a caller's of the exported function)
DeleteCall ==
    /\ \E r \in db : db' = deleteCase(db, r.id)
    /\ UNCHANGED <<evidenceList, report, caseId, caseQRCode, savedCases, sessionLocation,
                   isAnalyzing, showScanner, lastAlert, clock, nextId, uploads, analysis,
                   refreshes, runs>>
    /\ UNCHANGED periphery

\* deleteCase(id) rejects
DeleteRejected ==
    /\ db # {}
    /\ Rejected("deleteCase")
    /\ UNCHANGED refreshes

NextStore ==
    \/ handleFileUpload
    \/ UploadHashed
    \/ runAnalysis
    \/ AnalysisDone
    \/ handleSaveCase
    \/ SaveRejected
    \/ RefreshDone
    \/ RefreshRejected
    \/ handleClearStorage
    \/ ClearRejected
    \/ DeleteCall
    \/ DeleteRejected

SpecStore == Init /\ [][NextStore]_vars

-----------------------------------------------------------------------------
(* saveCase applied to arguments drawn from bounded sets, into the store   *)

\* The artifact handleFileUpload builds for a file, by the file's name
SealArtifact(name) ==
    NewEvidence(CHOOSE f \in Files : f.name = name, Uuid(2), <<>>, 0, <<>>)

\* Evidence lists: none, one artifact, two artifacts in either order
SealEvidence ==
    { <<>>,
      <<SealArtifact("x.pdf")>>,
      <<SealArtifact("x.pdf"), SealArtifact("scan.PDF")>>,
      <<SealArtifact("scan.PDF"), SealArtifact("x.pdf")>> }

SealReports ==
    {runConstitutionalAnalysis(<<SealArtifact(n)>>, Uuid(1), 0) : n \in {"x.pdf", "scan.PDF"}}

SealIds == {Uuid(1), Uuid(2)}

SealNames == {"", "Case A"}

\* saveCase(id, name, rep, evidence) is called
SealCall ==
    /\ \E id \in SealIds, name \in SealNames, rep \in SealReports, evidence \in SealEvidence :
          db' = saveCase(db, id, name, rep, evidence, clock)
    /\ UNCHANGED <<evidenceList, report, caseId, caseQRCode, savedCases, sessionLocation,
                   isAnalyzing, showScanner, lastAlert, clock, nextId, uploads, analysis,
                   refreshes, runs>>
    /\ UNCHANGED periphery

NextSeal ==
    \/ Tick
    \/ SealCall

SpecSeal == Init /\ [][NextSeal]_vars

-----------------------------------------------------------------------------
(* runConstitutionalAnalysis applied to evidence lists drawn from a bounded  *)
(* set of artifacts, under a running clock                                   *)

\* An EvidenceArtifact as the engine receives it: filename may be absent, a
\* MIME type the browser cannot tell is "", sessionLocation is <<>> or <<loc>>
EngineArtifact(n, filename, mimeType, type, location, timestamp) ==
    [id |-> Uuid(n),
     type |-> type,
     content |-> IF filename = undefined
                 THEN [kind |-> "Text", bytes |-> "note"]
                 ELSE [kind |-> "File", name |-> filename, type |-> mimeType,
                       bytes |-> "bytes", size |-> 5],
     filename |-> filename,
     mimeType |-> mimeType,
     timestamp |-> timestamp,
     sessionLocation |-> location,
     chainOfCustody |-> <<CapturedEntry(sha512("bytes"), location, timestamp)>>,
     cryptographicHash |-> sha512("bytes"),
     previewUrl |-> ""]

\* A resolved position
At(lat, lng) == <<[lat |-> Coord(lat, 0), lng |-> Coord(lng, 0), accuracy |-> 10]>>

EngineArtifacts ==
    { EngineArtifact(1, "x.pdf", "application/pdf", "DOCUMENT", <<>>, 0),
      EngineArtifact(2, "x.pdf", "image/png", "PHOTO", <<>>, 0),
      EngineArtifact(3, "scan.PDF", "image/png", "PHOTO", At(24, 54), 0),
      EngineArtifact(4, "evil.constructor", "text/plain", "DOCUMENT", At(-30, 25), 12000),
      EngineArtifact(5, undefined, "", "TEXT", At(0, 0), 0),
      EngineArtifact(6, "notes.txt", "text/plain", "DOCUMENT", At(22, 54), 0),
      EngineArtifact(7, "clip.mp4", "video/mp4", "VIDEO", At(-22, 25), 0),
      EngineArtifact(8, "json", "text/plain", "DOCUMENT", <<>>, 0) }

\* Evidence lists: empty, one artifact, two artifacts
EngineEvidence ==
    {<<>>} \cup {<<a>> : a \in EngineArtifacts}
           \cup {<<a, b>> : a \in EngineArtifacts, b \in EngineArtifacts}

\* A module 5 that sorts the array it is given, not a copy of it
EvidenceAfterBrain5InPlace(evidence) == SortByTimestamp(evidence)

\* The caller's array after runBrain5: [...evidence] is a new array, sort
\* reorders that copy, filter and map build new arrays
EvidenceAfterBrain5(evidence) ==
    LET copy   == [i \in 1..Len(evidence) |-> evidence[i]]
        sorted == SortByTimestamp(copy)
    IN  evidence

\* The caller's array after runConstitutionalAnalysis: the manifest loop and
\* modules 1, 2, 3, 7 and 8 read it (for..of, forEach, length, find, filter),
\* modules 4, 6 and 9 take no argument, module 5 is the one that sorts
EvidenceAfterAnalysis(evidence) == EvidenceAfterBrain5(evidence)

\* runConstitutionalAnalysis(evidence, id) is called and resolves; the run is
\* recorded with the array it was given as the call leaves it
EngineCall ==
    /\ \E evidence \in EngineEvidence, id \in SealIds :
          runs' = <<[evidence |-> evidence, caseId |-> id,
                     report |-> runConstitutionalAnalysis(evidence, id, clock),
                     after |-> EvidenceAfterAnalysis(evidence)]>>
    /\ UNCHANGED <<evidenceList, report, caseId, caseQRCode, savedCases, sessionLocation,
                   isAnalyzing, showScanner, lastAlert, db, clock, nextId, uploads,
                   analysis, refreshes>>
    /\ UNCHANGED periphery

NextEngine ==
    \/ Tick
    \/ EngineCall

SpecEngine == Init /\ [][NextEngine]_vars

-----------------------------------------------------------------------------
(* The exported functions called directly in a build without API key: the   *)
(* offline engine and the collaborators                                     *)

\* A build that carries no API key
InitOffline == InitApp /\ apiKey = FALSE

\* generatePodcast, generateSpeech, generateReenactment or sendMessage is
\* called by a caller that shows no overlay and raises no alert
CollaboratorCall ==
    /\ \E kind \in Kinds : CallCollaborator(kind, FALSE, "")
    /\ UNCHANGED besideCollaborators

NextOffline ==
    \/ EngineCall
    \/ CollaboratorCall

SpecOffline == InitOffline /\ [][NextOffline]_vars

-----------------------------------------------------------------------------
(* Properties *)

\* The artifact without its transient preview handle
Core(e) == [e EXCEPT !.previewUrl = ""]

Cores(evidence) == [i \in 1..Len(evidence) |-> Core(evidence[i])]

\* The hashes of an evidence list, in order
HashesOf(evidence) == [i \in 1..Len(evidence) |-> evidence[i].cryptographicHash]

RECURSIVE Concat(_)
Concat(strings) == IF strings = <<>> THEN "" ELSE Head(strings) \o Concat(Tail(strings))

\* Every record held by the store or by the saved-case list
AllRecords == db \cup Range(savedCases)

\* Every copy of an artifact the program holds
AllArtifacts ==
    Range(evidenceList)
    \cup UNION {Range(r.evidence) : r \in AllRecords}
    \cup (IF analysis = <<>> THEN {} ELSE Range(analysis[1].evidence))

\* C1: two runs of runConstitutionalAnalysis on identical evidence and the same
\* case id return the identical report (text and terminal self-hash), whatever
\* the clock reads at each run.  runs[1] is the last completed run, analysis[1]
\* the run that follows it.
C1_Determinism ==
    (/\ runs # <<>>
     /\ analysis # <<>>
     /\ analysis[1].evidence = runs[1].evidence
     /\ analysis[1].caseId = runs[1].caseId)
    => analysis[1].result = runs[1].report

\* C2 as claimed: the stored caseHash is digest(evidenceDigest || reportDigest)
\* with evidenceDigest the digest of the concatenated artifact hashes.
C2_SealOfDigests ==
    \A r \in db :
        r.caseHash = sha512(sha512(Concat(HashesOf(r.evidence))) \o sha512(r.report))

\* C2 amended: the stored caseHash is the digest of the direct concatenation of
\* the artifacts' hashes in manifest order, itself undigested, followed by the
\* digest of the report text.
C2_SealOfConcatenation ==
    \A r \in db :
        r.caseHash = sha512(Concat(HashesOf(r.evidence)) \o sha512(r.report))

C2_Witness ==
    \E r \in db :
        /\ Len(r.evidence) = 2
        /\ r.evidence[1].cryptographicHash # r.evidence[2].cryptographicHash

\* C3: the seal is a function of (ordered evidence hashes, report text) alone:
\* two stored records carry the same caseHash exactly when they have the same
\* hashes in the same order and the same report, whatever their id, name or
\* save time.
C3_SealAggregation ==
    \A r1, r2 \in db :
        (r1.caseHash = r2.caseHash)
        <=> (HashesOf(r1.evidence) = HashesOf(r2.evidence) /\ r1.report = r2.report)

C3_Witness ==
    \E r1, r2 \in db :
        /\ r1.id # r2.id /\ r1.name # r2.name /\ r1.timestamp # r2.timestamp
        /\ r1.caseHash = r2.caseHash
        /\ Len(r1.evidence) = 2
        /\ r1.evidence[1].cryptographicHash # r1.evidence[2].cryptographicHash

\* C4: onScanSuccess(candidate) accepts the candidate only when it is exactly
\* equal to the caseHash of a record of the saved-case list, and on a match the
\* evidence, report and case id that become current are those of a record of
\* the list whose seal equals the candidate.
C4_ScanMatch ==
    [][\A data \in ScanCandidates :
          onScanSuccess(data) =>
              IF \E i \in 1..Len(savedCases) : savedCases[i].caseHash = data
              THEN /\ lastAlert' = "verified"
                   /\ \E i \in 1..Len(savedCases) :
                         /\ savedCases[i].caseHash = data
                         /\ Cores(evidenceList') = Cores(savedCases[i].evidence)
                         /\ report' = savedCases[i].report
                         /\ caseId' = savedCases[i].id
              ELSE lastAlert' # "verified"]_vars

C4_Witness ==
    /\ lastAlert = "verified"
    /\ evidenceList # <<>>
    /\ \E i \in 1..Len(savedCases) :
          savedCases[i].id = caseId /\ savedCases[i].report = report

\* C5: when the candidate equals no seal of the saved-case list, onScanSuccess
\* raises the tamper-or-unknown warning and the evidence list, report, case id,
\* displayed seal, store and saved-case list are unchanged.
C5_ScanNoMatch ==
    [][\A data \in ScanCandidates :
          (onScanSuccess(data) /\ \A i \in 1..Len(savedCases) : savedCases[i].caseHash # data)
          => /\ lastAlert' = "tamper"
             /\ UNCHANGED <<evidenceList, report, caseId, caseQRCode, db, savedCases>>]_vars

C5_Witness ==
    /\ lastAlert = "tamper"
    /\ evidenceList # <<>>
    /\ report # <<>>
    /\ caseQRCode # ""
    /\ savedCases # <<>>

\* C6: once a CaseRecord is stored under an id, no step changes the report,
\* evidence list or caseHash stored under that id.
C6_RecordImmutable ==
    [][\A r \in db : \A r2 \in db' :
          r2.id = r.id =>
              /\ r2.report = r.report
              /\ r2.evidence = r.evidence
              /\ r2.caseHash = r.caseHash]_vars

\* C7: in every stored CaseRecord the last custody entry of each artifact has
\* action SEALED.
C7_SealedEntry ==
    \A r \in db : \A i \in 1..Len(r.evidence) :
        Last(r.evidence[i].chainOfCustody).action = "SEALED"

\* C8: after every step, every copy of an artifact (pool, analysis in flight,
\* stored records) carries the digest of its content, the same digest is
\* recorded in its first custody entry, which is the CAPTURED entry, and the
\* copy carries the digest and the content every copy of that artifact carried
\* before the step.
C8_ContentAddressed ==
    [][\A e \in AllArtifacts' :
          /\ e.cryptographicHash = sha512(e.content.bytes)
          /\ e.chainOfCustody # <<>>
          /\ e.chainOfCustody[1].action = "CAPTURED"
          /\ e.chainOfCustody[1].hash = e.cryptographicHash
          /\ \A e0 \in AllArtifacts \cup AllArtifacts' :
                e0.id = e.id => /\ e0.cryptographicHash = e.cryptographicHash
                                /\ e0.content = e.content]_vars

C8_Witness ==
    /\ lastAlert = "verified"
    /\ Len(evidenceList) = 2
    /\ evidenceList[1].cryptographicHash # evidenceList[2].cryptographicHash
    /\ \E r \in db : r.id = caseId /\ Cores(r.evidence) = Cores(evidenceList)

\* C9: the custody chain of an artifact only grows: every copy of the artifact
\* after a step has the chain of every copy before the step as a prefix, in
\* the pool, in the stored records and across save and reload.
C9_CustodyAppendOnly ==
    [][\A e \in AllArtifacts : \A e2 \in AllArtifacts' :
          e2.id = e.id => IsPrefix(e.chainOfCustody, e2.chainOfCustody)]_vars

C9_Witness ==
    /\ lastAlert = "verified"
    /\ \E r \in db :
          /\ r.id = caseId
          /\ Len(r.evidence) = Len(evidenceList)
          /\ Len(evidenceList) >= 1
          /\ \A i \in 1..Len(evidenceList) :
                /\ Len(evidenceList[i].chainOfCustody) = 1
                /\ evidenceList[i].chainOfCustody = r.evidence[i].chainOfCustody

\* The lines of a report whose first piece starts with a prefix
LinesStarting(rep, prefix) ==
    {i \in 1..Len(rep) : startsWith(rep[i][1], prefix)}

\* C10: the contradiction count of the dishonesty-detection summary equals the
\* number of CRITICAL mismatch findings of module 1 in the same report.
C10_ContradictionDisclosure ==
    report # <<>> =>
        \A i \in LinesStarting(report, "Contradictions: ") :
            report[i][2] = ToString(Cardinality(LinesStarting(report, "[CRITICAL]")))

\* The line of a report, by number, that starts with a prefix: 0 if there is
\* none or more than one
TheLine(rep, prefix) ==
    IF Cardinality(LinesStarting(rep, prefix)) = 1
    THEN CHOOSE i \in LinesStarting(rep, prefix) : TRUE
    ELSE 0

\* C11: every report runConstitutionalAnalysis returns ends with one line
\* "SHA-512:" h, no other line carries that label, and h is the digest of all
\* the lines before the terminal line and of nothing else.
C11_SelfHash ==
    \A i \in 1..Len(runs) :
        LET r == runs[i].report
        IN  /\ Len(r) > 1
            /\ LinesStarting(r, "SHA-512:") = {Len(r)}
            /\ Last(r) = <<"SHA-512:", sha512(SubSeq(r, 1, Len(r) - 1))>>

C11_Witness ==
    /\ runs # <<>>
    /\ Len(runs[1].evidence) = 2
    /\ Last(runs[1].report)[1] = "SHA-512:"

\* The first words of the nine module sections
BrainHeaders ==
    <<"BRAIN 1 (", "BRAIN 2 (", "BRAIN 3 (", "BRAIN 4 (", "BRAIN 5 (", "BRAIN 6 (",
      "BRAIN 7 (", "BRAIN 8 (", "BRAIN 9 (">>

\* C12: in every report each of the nine module sections appears exactly once,
\* section k before section k+1, all of them after the manifest heading and
\* every manifest line and before the Triple Verification heading.
C12_AssemblyOrder ==
    \A i \in 1..Len(runs) :
        LET r == runs[i].report
            at(k) == TheLine(r, BrainHeaders[k])
        IN  /\ \A k \in 1..9 : at(k) > 0
            /\ \A k \in 1..8 : at(k) < at(k + 1)
            /\ TheLine(r, "1. EVIDENCE MANIFEST") > 0
            /\ TheLine(r, "1. EVIDENCE MANIFEST") < at(1)
            /\ \A m \in LinesStarting(r, "[ID:") : m < at(1)
            /\ TheLine(r, "3. TRIPLE VERIFICATION") > at(9)

C12_Witness ==
    /\ runs # <<>>
    /\ Len(runs[1].evidence) = 2
    /\ TheLine(runs[1].report, "BRAIN 9 (") > TheLine(runs[1].report, "BRAIN 1 (")
    /\ TheLine(runs[1].report, "BRAIN 1 (") > 0

\* The extensions of module 1's fixed table
TableExtensions == {"pdf", "jpg", "jpeg", "png", "txt", "mp4", "mp3", "wav", "json"}

\* The artifact has a lowercase extension of the table and a declared MIME
\* type that does not start with the table's expected value
TableMismatch(e) ==
    /\ e.filename # undefined
    /\ Extension(e) \in TableExtensions
    /\ ~startsWith(e.mimeType, mimeMap[Extension(e)])

\* C13: in every report the number of CRITICAL mismatch findings is the number
\* of artifacts whose lowercase extension is in the fixed table and whose
\* declared MIME type does not start with the expected value, and the clean
\* verdict is given exactly when that number is 0.
C13_Module1Rule ==
    \A i \in 1..Len(runs) :
        LET r == runs[i].report
            ev == runs[i].evidence
            n == Cardinality({k \in 1..Len(ev) : TableMismatch(ev[k])})
        IN  /\ Cardinality(LinesStarting(r, "[CRITICAL]")) = n
            /\ (LinesStarting(r, "No structural contradictions") # {}) <=> (n = 0)

\* The first artifact in list order that carries a session location: 0 if none
FirstLocated(ev) ==
    IF \E k \in 1..Len(ev) : ev[k].sessionLocation # <<>>
    THEN CHOOSE k \in 1..Len(ev) :
            /\ ev[k].sessionLocation # <<>>
            /\ \A j \in 1..Len(ev) : ev[j].sessionLocation # <<>> => k <= j
    ELSE 0

\* The jurisdiction C14 assigns to an evidence list
ExpectedJurisdiction(ev) ==
    IF FirstLocated(ev) = 0 THEN "UNDETERMINED"
    ELSE LET loc == ev[FirstLocated(ev)].sessionLocation[1]
         IN  IF /\ Coord(22, 0) < loc.lat /\ loc.lat < Coord(26, 0)
                /\ Coord(51, 0) < loc.lng /\ loc.lng < Coord(57, 0) THEN "A"
             ELSE IF /\ Coord(-35, 0) < loc.lat /\ loc.lat < Coord(-22, 0)
                     /\ Coord(16, 0) < loc.lng /\ loc.lng < Coord(33, 0) THEN "B"
             ELSE "INTERNATIONAL/UNKNOWN"

\* The jurisdictions a report states in module 7
StatedJurisdictions(r) ==
    (IF LinesStarting(r, "Detected Jurisdiction: UNITED ARAB EMIRATES") # {} THEN {"A"} ELSE {})
    \cup (IF LinesStarting(r, "Detected Jurisdiction: SOUTH AFRICA") # {} THEN {"B"} ELSE {})
    \cup (IF LinesStarting(r, "Detected Jurisdiction: INTERNATIONAL / UNKNOWN") # {}
          THEN {"INTERNATIONAL/UNKNOWN"} ELSE {})
    \cup (IF LinesStarting(r, "Jurisdiction: UNDETERMINED") # {} THEN {"UNDETERMINED"} ELSE {})

\* C14: module 7 states exactly one jurisdiction, that of the first located
\* artifact in list order: A strictly inside 22..26 by 51..57, B strictly
\* inside -35..-22 by 16..33, INTERNATIONAL/UNKNOWN elsewhere (box boundaries
\* included), UNDETERMINED when no artifact is located.
C14_Jurisdiction ==
    \A i \in 1..Len(runs) :
        StatedJurisdictions(runs[i].report) = {ExpectedJurisdiction(runs[i].evidence)}

\* A list whose first artifact has no location and whose second lies in box A
C14_Witness ==
    /\ runs # <<>>
    /\ Len(runs[1].evidence) = 2
    /\ runs[1].evidence[1].sessionLocation = <<>>
    /\ runs[1].evidence[2].sessionLocation = At(24, 54)
    /\ StatedJurisdictions(runs[1].report) = {"A"}

\* C15: the report of the empty evidence list has a manifest heading followed
\* by no artifact line, carries the "No data." placeholder as the line after
\* module 5's heading, and ends with the terminal self-hash line.
C15_EmptyEvidence ==
    \A i \in 1..Len(runs) :
        runs[i].evidence = <<>> =>
            LET r == runs[i].report
                m == TheLine(r, "1. EVIDENCE MANIFEST")
                b == TheLine(r, "BRAIN 5 (")
            IN  /\ m > 0
                /\ r[m + 2] = <<"">>
                /\ LinesStarting(r, "[ID:") = {}
                /\ b > 0
                /\ r[b + 1] = <<"No data.">>
                /\ Last(r) = <<"SHA-512:", sha512(SubSeq(r, 1, Len(r) - 1))>>

C15_Witness ==
    /\ runs # <<>>
    /\ runs[1].evidence = <<>>
    /\ LinesStarting(runs[1].report, "No data.") # {}

\* The number of lines of a report equal to a given line
CountLines(r, line) == Cardinality({k \in 1..Len(r) : r[k] = line})

\* C16: for every evidence list, artifacts without filename, without MIME type
\* or without location included, the report is complete: each of the nine
\* module sections is there once, the terminal self-hash line closes it, an
\* absent filename is rendered "undefined" by module 2 and raises no module 1
\* finding, an absent MIME type is rendered empty, and a list without any
\* located artifact gets the "GPS Data Missing" and "No GPS" fallbacks.
C16_NoModuleFailure ==
    \A i \in 1..Len(runs) :
        LET r == runs[i].report
            ev == runs[i].evidence
            nameless == {k \in 1..Len(ev) : ev[k].filename = undefined}
            typeless == {k \in 1..Len(ev) : ev[k].mimeType = ""}
        IN  /\ \A k \in 1..9 : TheLine(r, BrainHeaders[k]) > 0
            /\ Last(r) = <<"SHA-512:", sha512(SubSeq(r, 1, Len(r) - 1))>>
            /\ CountLines(r, <<"> Artifact: ", "undefined">>) = Cardinality(nameless)
            /\ CountLines(r, <<"  TYPE: ", "">>) = Cardinality(typeless)
            /\ Cardinality(LinesStarting(r, "[CRITICAL]"))
                  = Cardinality({k \in 1..Len(ev) : IsMismatch(ev[k])})
            /\ \A k \in nameless : ~IsMismatch(ev[k])
            /\ (ev # <<>> /\ FirstLocated(ev) = 0) =>
                  /\ TheLine(r, "Session Jurisdiction: UNKNOWN (GPS Data Missing)") > 0
                  /\ TheLine(r, "Jurisdiction: UNDETERMINED (No GPS)") > 0

\* A nameless, typeless artifact and one without location, analysed together
C16_Witness ==
    /\ runs # <<>>
    /\ Len(runs[1].evidence) = 2
    /\ runs[1].evidence[1].filename = undefined
    /\ runs[1].evidence[1].mimeType = ""
    /\ runs[1].evidence[2].sessionLocation = <<>>
    /\ TheLine(runs[1].report, "BRAIN 9 (") > 0

\* C17: a step that sends a request to a network-bound collaborator is taken
\* only when the store holds the sealed record of the current case: a record
\* of the current case id with the current report and evidence.
C17_AfterSealing ==
    [][(\E kind \in Kinds : requests'[kind] > requests[kind])
       => \E r \in db : /\ r.id = caseId
                        /\ r.report = report
                        /\ Cores(r.evidence) = Cores(evidenceList)]_vars

\* C18: while a collaborator request is in flight, whatever its kind, an
\* analysis can be started on a non-empty evidence pool and a generated
\* report can be sealed (no analysis being in flight, no scanner open).
C18_CoreAvailable ==
    ((\E kind \in Kinds : requests[kind] > 0) /\ analysis = <<>> /\ ~showScanner)
    => /\ (evidenceList # <<>> => ENABLED runAnalysis)
       /\ (report # <<>> => ENABLED handleSaveCase)

\* What the collaborators return on failure: null, or sendMessage's texts
FailureValues == {Null, ContactErrorText, NoSessionText}

\* C19: a step in which a collaborator call comes back leaves a returned
\* value, and when that value is a failure value (null or an error text) the
\* evidence list, the report, the case id and the stored records are as they
\* were and no rejection is raised.
C19_FailureContained ==
    [][((\E kind \in Kinds : requests'[kind] < requests[kind]) \/ returned' # returned)
       => /\ returned' # <<>>
          /\ returned'[1].value \in FailureValues =>
                /\ UNCHANGED <<evidenceList, report, caseId, db>>
                /\ rejections' = rejections]_vars

\* A podcast request for a sealed case failed on the network
C19_Witness ==
    /\ apiKey
    /\ returned = <<[kind |-> "podcast", value |-> Null]>>
    /\ lastAlert = "podcast failed"
    /\ ~isAnalyzing
    /\ report # <<>>
    /\ \E r \in db : r.id = caseId /\ r.report = report

\* C20: a step in which a storage call rejects changes neither the store nor
\* the saved-case list (a failed load is not shown as an empty list), displays
\* no seal and raises no confirmation; and the 'sealed and saved' confirmation
\* is raised only by a step without rejection that put the record of the
\* current case, whose seal is the one displayed.
C20_PersistenceFailure ==
    [][/\ Len(rejections') > Len(rejections) =>
             /\ Last(rejections') \in {"saveCase", "loadCases", "deleteCase", "clearAllCases"}
             /\ UNCHANGED <<db, savedCases, caseQRCode, lastAlert>>
             /\ UNCHANGED <<evidenceList, report, caseId>>
       /\ (lastAlert' = "sealed" /\ (lastAlert # "sealed" \/ db' \ db # {})) =>
             /\ rejections' = rejections
             /\ \E r \in db' : /\ r.id = caseId
                                /\ r.report = report
                                /\ caseQRCode' = generateQRCode(r.caseHash)]_vars

\* A load rejected while the list showed a stored case
C20_Witness ==
    /\ rejections = <<"loadCases">>
    /\ savedCases # <<>>
    /\ db # {}

\* The OFFLINE status sections of modules 4, 6 and 8, by their first line
OfflineHeaders ==
    <<"BRAIN 4 (LINGUISTICS): OFFLINE", "BRAIN 6 (FINANCIAL): OFFLINE",
      "BRAIN 8 (AUDIO/VOICE): OFFLINE">>

\* C21: every report carries the OFFLINE status section of modules 4, 6 and 8
\* once each, the sections of modules 5, 7 and 9 after them, then the Triple
\* Verification heading and the terminal self-hash line; and in a build
\* without API key no collaborator call goes to the network, sendMessage
\* returns its "API Key missing" text and the generation functions return null.
C21_CapabilityAbsent ==
    /\ \A i \in 1..Len(runs) :
          LET r == runs[i].report
              off(k) == TheLine(r, OfflineHeaders[k])
          IN  /\ \A k \in 1..3 : off(k) > 0
              /\ off(1) < TheLine(r, "BRAIN 5 (") /\ TheLine(r, "BRAIN 5 (") < off(2)
              /\ off(2) < TheLine(r, "BRAIN 7 (") /\ TheLine(r, "BRAIN 7 (") < off(3)
              /\ off(3) < TheLine(r, "BRAIN 9 (")
              /\ TheLine(r, "BRAIN 9 (") < TheLine(r, "3. TRIPLE VERIFICATION")
              /\ Last(r) = <<"SHA-512:", sha512(SubSeq(r, 1, Len(r) - 1))>>
    /\ ~apiKey =>
          /\ \A kind \in Kinds : requests[kind] = 0
          /\ \A i \in 1..Len(returned) :
                returned[i].value = (IF returned[i].kind = "message"
                                     THEN "API Key missing or Assistant not initialized. (Online Mode Required)"
                                     ELSE "null")

\* Without API key: a report of two artifacts was produced and sendMessage
\* has answered
C21_Witness ==
    /\ ~apiKey
    /\ runs # <<>>
    /\ Len(runs[1].evidence) = 2
    /\ returned # <<>>
    /\ returned[1].kind = "message"

Timestamps(ev) == {ev[k].timestamp : k \in 1..Len(ev)}

MinTimestamp(ev) == CHOOSE t \in Timestamps(ev) : \A u \in Timestamps(ev) : t <= u

MaxTimestamp(ev) == CHOOSE t \in Timestamps(ev) : \A u \in Timestamps(ev) : u <= t

\* C23: in the report of a non-empty evidence list module 5's timeline span
\* runs from the minimum to the maximum artifact timestamp, and its session
\* jurisdiction line gives the position (4 decimals) and accuracy of the first
\* artifact in list order that carries a session location, or UNKNOWN when
\* none carries one.
C23_Module5Selection ==
    \A i \in 1..Len(runs) :
        LET r    == runs[i].report
            ev   == runs[i].evidence
            span == TheLine(r, "Timeline Span: ")
            geo  == TheLine(r, "Session Jurisdiction: ")
        IN  ev # <<>> =>
              /\ span > 0
              /\ r[span] = <<"Timeline Span: ", getLocalTime(MinTimestamp(ev)), " to ",
                             getLocalTime(MaxTimestamp(ev))>>
              /\ geo = span + 1
              /\ r[geo] = IF FirstLocated(ev) = 0
                          THEN <<"Session Jurisdiction: UNKNOWN (GPS Data Missing)">>
                          ELSE LET loc == ev[FirstLocated(ev)].sessionLocation[1]
                               IN  <<"Session Jurisdiction: Lat ", toFixed(loc.lat, 4),
                                     ", Lng ", toFixed(loc.lng, 4),
                                     " (Accuracy: ", ToString(loc.accuracy), "m)">>

\* A list whose first artifact is the later one by timestamp, both located at
\* different positions: the span starts at the second, the position is the
\* first's
C23_Witness ==
    /\ runs # <<>>
    /\ Len(runs[1].evidence) = 2
    /\ runs[1].evidence[1].timestamp > runs[1].evidence[2].timestamp
    /\ runs[1].evidence[1].sessionLocation = At(-30, 25)
    /\ runs[1].evidence[2].sessionLocation = At(24, 54)
    /\ TheLine(runs[1].report, "Session Jurisdiction: Lat ") > 0

\* Module 5's session jurisdiction line for a position
Brain5PositionLine(loc) ==
    <<"Session Jurisdiction: Lat ", toFixed(loc.lat, 4), ", Lng ", toFixed(loc.lng, 4),
      " (Accuracy: ", ToString(loc.accuracy), "m)">>

\* Modules 5 and 7 of a report speak of the position of one artifact of ev
SameArtifact(r, ev) ==
    \E k \in 1..Len(ev) :
        /\ ev[k].sessionLocation # <<>>
        /\ CountLines(r, Brain5PositionLine(ev[k].sessionLocation[1])) = 1
        /\ StatedJurisdictions(r) = {ExpectedJurisdiction(<<ev[k]>>)}

Brain5Unknown(r) == CountLines(r, <<"Session Jurisdiction: UNKNOWN (GPS Data Missing)">>) > 0

Brain7Undetermined(r) == CountLines(r, <<"Jurisdiction: UNDETERMINED (No GPS)">>) > 0

\* C25 as claimed: for every evidence list module 5 reports UNKNOWN exactly
\* when module 7 reports UNDETERMINED, and otherwise the position module 5
\* reports and the one module 7 maps are those of one artifact.
C25_ModulesAgree ==
    \A i \in 1..Len(runs) :
        LET r == runs[i].report
            ev == runs[i].evidence
        IN  /\ Brain5Unknown(r) <=> Brain7Undetermined(r)
            /\ ~Brain7Undetermined(r) => SameArtifact(r, ev)

\* C25 amended: for every non-empty evidence list module 5 reports UNKNOWN
\* exactly when module 7 reports UNDETERMINED, and otherwise the position
\* module 5 reports and the one module 7 maps are those of one artifact,
\* whatever the relation of list order and timestamp order; for the empty
\* list module 7 reports UNDETERMINED while module 5 reports "No data." and
\* no jurisdiction line.
C25_ModulesAgreeNonEmpty ==
    \A i \in 1..Len(runs) :
        LET r == runs[i].report
            ev == runs[i].evidence
        IN  /\ ev # <<>> => (Brain5Unknown(r) <=> Brain7Undetermined(r))
            /\ ~Brain7Undetermined(r) => SameArtifact(r, ev)
            /\ ev = <<>> => /\ Brain7Undetermined(r)
                            /\ ~Brain5Unknown(r)
                            /\ LinesStarting(r, "Session Jurisdiction") = {}
                            /\ CountLines(r, <<"No data.">>) = 1

\* A list whose first artifact, in box B, is the later one by timestamp and
\* whose second lies in box A: both modules speak of the first
C25_Witness ==
    /\ runs # <<>>
    /\ Len(runs[1].evidence) = 2
    /\ runs[1].evidence[1].timestamp > runs[1].evidence[2].timestamp
    /\ ExpectedJurisdiction(<<runs[1].evidence[2]>>) = "A"
    /\ StatedJurisdictions(runs[1].report) = {"B"}
    /\ CountLines(runs[1].report, Brain5PositionLine(At(-30, 25)[1])) = 1

\* The filename contains no '.'
HasNoDot(filename) == \A i \in 1..Len(filename) : SubSeq(filename, i, i) # "."

\* C29: an artifact whose filename contains no '.' gets no CRITICAL mismatch
\* finding from module 1, whatever its declared MIME type.
C29_NoExtensionIgnored ==
    \A i \in 1..Len(runs) :
        LET r == runs[i].report
            ev == runs[i].evidence
        IN  \A k \in 1..Len(ev) :
                (ev[k].filename # undefined /\ HasNoDot(ev[k].filename))
                => \A l \in LinesStarting(r, "[CRITICAL]") : r[l][2] # ev[k].filename

\* The hashes a report lists in its manifest, in order
ManifestHashes(rep) ==
    LET IsManifestLine(line) == startsWith(line[1], "[ID:")
        lines == SelectSeq(rep, IsManifestLine)
    IN  [i \in 1..Len(lines) |-> lines[i][8]]

\* C24: in every stored CaseRecord the hashes listed in the manifest of the
\* record's report are the cryptographicHash values of the record's evidence,
\* in the same order.
C24_RecordSelfConsistent ==
    \A r \in db : ManifestHashes(r.report) = HashesOf(r.evidence)

\* C26: whenever a seal is on display it encodes the seal of the evidence
\* list and report currently held: the digest over the current evidence
\* hashes and the current report.
C26_DisplayedSealCurrent ==
    caseQRCode # "" => caseQRCode = generateQRCode(CaseHash(report, evidenceList))

\* The batches in flight after batch i gave up its first file
BatchAdvanced(tasks, i) ==
    IF Len(tasks[i].files) = 1
    THEN SubSeq(tasks, 1, i - 1) \o SubSeq(tasks, i + 1, Len(tasks))
    ELSE [tasks EXCEPT ![i].files = Tail(@)]

\* C27: under any interleaving of upload batches, a step in which a file's
\* hashing completes appends one artifact of that file, under an id no
\* artifact of the list carries, behind the artifacts already there, which
\* stay as they are; the file is the first not yet ingested of its batch (so
\* the files of a batch are ingested in selection order) and the other
\* batches are untouched; and no step drops a pending file without adding
\* its artifact.
C27_NoLossNoDuplicate ==
    [][/\ evidenceList' # evidenceList =>
             \E i \in 1..Len(uploads) :
                 /\ Len(evidenceList') = Len(evidenceList) + 1
                 /\ SubSeq(evidenceList', 1, Len(evidenceList)) = evidenceList
                 /\ Last(evidenceList').content = Head(uploads[i].files)
                 /\ \A k \in 1..Len(evidenceList) : evidenceList[k].id # Last(evidenceList').id
                 /\ uploads' = BatchAdvanced(uploads, i)
       /\ PendingFiles(uploads') < PendingFiles(uploads) =>
             /\ PendingFiles(uploads') = PendingFiles(uploads) - 1
             /\ Len(evidenceList') = Len(evidenceList) + 1]_vars

\* Two batches were in flight together, the first started before the position
\* was known and the second after it, and the second was ingested first
C27_Witness ==
    /\ Len(evidenceList) = 2
    /\ uploads = <<>>
    /\ evidenceList[1].sessionLocation # <<>>
    /\ evidenceList[2].sessionLocation = <<>>
    /\ evidenceList[1].id # evidenceList[2].id

\* C28: a step that adds an artifact to the evidence pool adds it for an
\* upload that was started under the case id now current: an upload started
\* before handleEmptyEvidence gave the pool a new case id adds nothing to the
\* pool of the new case.
C28_CleanCase ==
    [][\A i \in 1..Len(uploads) :
          (uploads' = BatchAdvanced(uploads, i) /\ Len(evidenceList') = Len(evidenceList) + 1)
          => uploads[i].caseId = caseId]_vars

\* Every stored record is in the saved-case list
Listed == \A r \in db : r \in Range(savedCases)

\* C30: when no persistence operation fails, a stored record that the
\* saved-case list lacks is in the list in the end (the list comes to hold
\* every stored record); a listed record stays in the list for as long as it
\* is stored (not re-saved, storage not cleared); and scanning the seal of a
\* listed record that is stored yields the "verified" answer and loads a
\* listed case with that seal, never the tamper warning.
C30_SealedBecomesVerifiable ==
    /\ (~Listed) ~> Listed
    /\ [][/\ \A r \in db \cap Range(savedCases) : r \in db' => r \in Range(savedCases')
          /\ \A r \in db \cap Range(savedCases) :
                onScanSuccess(r.caseHash) =>
                    /\ lastAlert' = "verified"
                    /\ \E i \in 1..Len(savedCases) :
                          /\ savedCases[i].caseHash = r.caseHash
                          /\ caseId' = savedCases[i].id
                          /\ report' = savedCases[i].report]_vars

\* A case was sealed, the list came to hold its record, and its seal was
\* scanned and verified
C30_Witness ==
    /\ lastAlert = "verified"
    /\ Len(savedCases) = 1
    /\ db = {savedCases[1]}
    /\ caseId = savedCases[1].id
    /\ report = savedCases[1].report
    /\ caseQRCode = generateQRCode(savedCases[1].caseHash)

====
